---- MODULE Spec2Model ----
(***************************************************************************)
(* A model of my-rusty-plonk: fixed-modulus field F_101, the curve         *)
(* y^2 = x^3 + 3 with its groups G1 and G2, the toy pairing, the KZG       *)
(* protocol (my_plonk/kzg.rs), and the per-value-modulus polynomial        *)
(* library (my_math/polynomial.rs over math/field.rs).                     *)
(***************************************************************************)
EXTENDS Integers, Sequences, FiniteSets, TLC

VARIABLES
    kzg,    \* the KZG instance: [state, setup_g1, setup_g2]
    tau,    \* the secret scalar drawn by KZG::new (a local of the constructor)
    max_degree, \* the degree argument KZG::new was called with
    call,   \* the last KZG call: its operation, arguments and outcome
    pcall,  \* the last Polynomial library call: operation, arguments, outcome
    ecall,  \* the last curve library call: operation, arguments, outcome
    reg,    \* two G1 points computed from generator_g1 by add and scalar_mul
    fcall   \* the last FieldElement call: operation, arguments, outcome

vars == <<kzg, tau, max_degree, call, pcall, ecall, reg, fcall>>

(***************************************************************************)
(* Bounds of the model.                                                    *)
(***************************************************************************)
MaxDegree == 2      \* KZG::new(degree) is called with degree in 0..MaxDegree
MaxLen == 3         \* KZG polynomials have at most MaxLen coefficients
MaxCoeff == 1       \* KZG coefficients and evaluation points are in 0..MaxCoeff
MaxScalar == 1      \* verify is handed the points [k]G1, k in 0..MaxScalar
MaxTrip == 3        \* the round trip's a, b and z are in 0..MaxTrip
PolyMaxLen == 3     \* library polynomials are built from at most PolyMaxLen coefficients
PolyMaxCoeff == 2   \* library coefficients and point coordinates are in 0..PolyMaxCoeff
MaxPoints == 3      \* lagrange_interpolate is handed at most MaxPoints points

(***************************************************************************)
(* my_math/field.rs: FieldElement with the fixed modulus 101.  A field     *)
(* element is its u64 value.                                               *)
(***************************************************************************)
MODULUS == 101

FieldElement_new(value) == value % MODULUS

FieldElement_zero == FieldElement_new(0)

FieldElement_one == FieldElement_new(1)

\* Mutant of add: the sum is stored without reduction.
FieldElement_add_unreduced(self, other) == self + other

FieldElement_add(self, other) == FieldElement_new(self + other)

FieldElement_substract(self, other) == FieldElement_new(self + MODULUS - other)

FieldElement_multiply(self, other) == FieldElement_new(self * other)

\* Rust's % on signed integers: the remainder takes the dividend's sign.
RustRem(a, b) == IF a >= 0 THEN a % b ELSE -((-a) % b)

\* Rust's / on signed integers truncates toward zero.
RustDiv(a, b) ==
    IF (a >= 0) = (b >= 0)
    THEN (IF a >= 0 THEN a ELSE -a) \div (IF b >= 0 THEN b ELSE -b)
    ELSE -((IF a >= 0 THEN a ELSE -a) \div (IF b >= 0 THEN b ELSE -b))

\* ext_euclidean_algo.rs: the while loop of ext_gcd over (old_r, r), (old_s, s),
\* (old_t, t); returns <<s, t, gcd>>.
RECURSIVE ext_gcd_loop(_, _, _, _, _, _)
ext_gcd_loop(old_r, r, old_s, s, old_t, t) ==
    IF r = 0
    THEN <<old_s, old_t, old_r>>
    ELSE LET quotient == RustDiv(old_r, r)
         IN  ext_gcd_loop(r, old_r - quotient * r,
                          s, old_s - quotient * s,
                          t, old_t - quotient * t)

ext_gcd(a, b) == ext_gcd_loop(a, b, 1, 0, 0, 1)

\* Option<u64>: None and Some(v).
None == [is_some |-> FALSE, value |-> 0]

Some(v) == [is_some |-> TRUE, value |-> v]

\* Mutant of mod_inverse: the second Bezout coefficient is taken.
FieldElement_mod_inverse_takes_t(self) ==
    LET g == ext_gcd(self, MODULUS)
    IN  IF g[3] /= 1
        THEN None
        ELSE Some(RustRem(RustRem(g[2], MODULUS) + MODULUS, MODULUS))

FieldElement_mod_inverse(self) ==
    LET g == ext_gcd(self, MODULUS)
    IN  IF g[3] /= 1
        THEN None
        ELSE Some(RustRem(RustRem(g[1], MODULUS) + MODULUS, MODULUS))

\* Mutant of inverse: the sentinel is the one element.
FieldElement_inverse_sentinel_one(self) ==
    LET inv == FieldElement_mod_inverse(self)
    IN  IF inv.is_some THEN inv.value ELSE FieldElement_one

FieldElement_inverse(self) ==
    LET inv == FieldElement_mod_inverse(self)
    IN  IF inv.is_some THEN inv.value ELSE FieldElement_zero

FieldElement_divide(self, other) ==
    FieldElement_multiply(self, FieldElement_inverse(other))

\* Mutant of the loop of pow: a set bit multiplies by 2 instead of self.
RECURSIVE FieldElement_pow_loop_times_two(_, _, _, _, _)
FieldElement_pow_loop_times_two(self, exp, n, fsb_found, result) ==
    IF n < 0
    THEN result
    ELSE LET bin == (exp \div (2 ^ n)) % 2
         IN  IF fsb_found
             THEN IF bin = 1
                  THEN FieldElement_pow_loop_times_two(self, exp, n - 1, TRUE,
                         FieldElement_multiply(
                           FieldElement_multiply(result, result),
                           FieldElement_new(2)))
                  ELSE FieldElement_pow_loop_times_two(self, exp, n - 1, TRUE,
                         FieldElement_multiply(result, result))
             ELSE IF bin = 1
                  THEN FieldElement_pow_loop_times_two(self, exp, n - 1, TRUE,
                                                       result)
                  ELSE FieldElement_pow_loop_times_two(self, exp, n - 1, FALSE,
                                                       result)

\* The loop of pow over bit positions n = 63 down to 0.
RECURSIVE FieldElement_pow_loop(_, _, _, _, _)
FieldElement_pow_loop(self, exp, n, fsb_found, result) ==
    IF n < 0
    THEN result
    ELSE LET bin == (exp \div (2 ^ n)) % 2
         IN  IF fsb_found
             THEN IF bin = 1
                  THEN FieldElement_pow_loop(self, exp, n - 1, TRUE,
                         FieldElement_multiply(
                           FieldElement_multiply(result, result), self))
                  ELSE FieldElement_pow_loop(self, exp, n - 1, TRUE,
                         FieldElement_multiply(result, result))
             ELSE IF bin = 1
                  THEN FieldElement_pow_loop(self, exp, n - 1, TRUE, result)
                  ELSE FieldElement_pow_loop(self, exp, n - 1, FALSE, result)

\* The exponents of the model are below 2^PowBits; the bits above are zero and
\* are skipped by the loop before fsb_found, so the scan starts at PowBits - 1.
PowBits == 8

FieldElement_pow(self, exp) ==
    IF exp = 0
    THEN FieldElement_one
    ELSE FieldElement_pow_loop(self, exp, PowBits - 1, FALSE, self)

\* Mutant of negate: the value is subtracted from MODULUS - 1.
FieldElement_negate_off_by_one(self) ==
    FieldElement_substract(FieldElement_new(MODULUS - 1), self)

FieldElement_negate(self) ==
    FieldElement_substract(FieldElement_new(MODULUS), self)

(***************************************************************************)
(* FieldElementExt: a + b*u with u^2 = -2 (my_math/field.rs).              *)
(***************************************************************************)
FieldElementExt_new(a, b) == [a |-> a, b |-> b]

FieldElementExt_add(self, other) ==
    [a |-> FieldElement_add(self.a, other.a),
     b |-> FieldElement_add(self.b, other.b)]

FieldElementExt_substract(self, other) ==
    [a |-> FieldElement_substract(self.a, other.a),
     b |-> FieldElement_substract(self.b, other.b)]

FieldElementExt_multiply(self, other) ==
    LET ac == FieldElement_multiply(self.a, other.a)
        ad_u == FieldElement_multiply(self.a, other.b)
        bc_u == FieldElement_multiply(self.b, other.a)
        bd_u2 == FieldElement_multiply(
                   FieldElement_multiply(self.b, other.b),
                   FieldElement_new(101 - 2))
    IN  [a |-> FieldElement_add(ac, bd_u2),
         b |-> FieldElement_add(ad_u, bc_u)]

(***************************************************************************)
(* my_plonk/elliptic_curve.rs: Point, PointExt and EllipticCurve.          *)
(***************************************************************************)
Point_infinity ==
    [x |-> FieldElement_new(0), y |-> FieldElement_new(0), is_infinity |-> TRUE]

PointExt_infinity ==
    [x |-> FieldElementExt_new(FieldElement_zero, FieldElement_zero),
     y |-> FieldElementExt_new(FieldElement_zero, FieldElement_zero),
     is_infinity |-> TRUE]

\* EllipticCurve::new(): y^2 = x^3 + 0x + 3, G1 = (1, 2), G2 = (36, 31u).
EllipticCurve_new ==
    [a |-> FieldElement_new(0),
     b |-> FieldElement_new(3),
     g1 |-> [x |-> FieldElement_new(1), y |-> FieldElement_new(2),
             is_infinity |-> FALSE],
     g2 |-> [x |-> FieldElementExt_new(FieldElement_new(36), FieldElement_zero),
             y |-> FieldElementExt_new(FieldElement_zero, FieldElement_new(31)),
             is_infinity |-> FALSE],
     order |-> 17]

generator_g1(curve) == curve.g1

generator_g2(curve) == curve.g2

\* The tail of add and add_ext from the slope m: x3 = m^2 - x1 - x2 and
\* y3 = m (x1 - x3) - y1.
\* Mutant of the tail of add: y3 = m (x1 - x3) + y1.
EllipticCurve_add_y3_plus(m, p1, x3) ==
    [x |-> x3,
     y |-> FieldElement_add(
             FieldElement_multiply(m, FieldElement_substract(p1.x, x3)), p1.y),
     is_infinity |-> FALSE]

EllipticCurve_add_y3(m, p1, x3) ==
    [x |-> x3,
     y |-> FieldElement_substract(
             FieldElement_multiply(m, FieldElement_substract(p1.x, x3)), p1.y),
     is_infinity |-> FALSE]

EllipticCurve_add_x3(m, p1, p2) ==
    EllipticCurve_add_y3(m, p1,
        FieldElement_substract(
            FieldElement_substract(FieldElement_multiply(m, m), p1.x), p2.x))

\* Mutant of add: the test for p2 at infinity is left out.
EllipticCurve_add_no_right_identity(curve, p1, p2) ==
    IF p1.is_infinity THEN p2
    ELSE IF p1.x = p2.x /\ p1.y /= p2.y THEN Point_infinity
    ELSE EllipticCurve_add_x3(
           IF p1 = p2
           THEN FieldElement_divide(
                  FieldElement_add(
                    FieldElement_multiply(FieldElement_multiply(p1.x, p1.x),
                                          FieldElement_new(3)),
                    curve.a),
                  FieldElement_multiply(p1.y, FieldElement_new(2)))
           ELSE FieldElement_divide(FieldElement_substract(p2.y, p1.y),
                                    FieldElement_substract(p2.x, p1.x)),
           p1, p2)

EllipticCurve_add(curve, p1, p2) ==
    IF p1.is_infinity THEN p2
    ELSE IF p2.is_infinity THEN p1
    ELSE IF p1.x = p2.x /\ p1.y /= p2.y THEN Point_infinity
    ELSE EllipticCurve_add_x3(
           IF p1 = p2
           THEN FieldElement_divide(
                  FieldElement_add(
                    FieldElement_multiply(FieldElement_multiply(p1.x, p1.x),
                                          FieldElement_new(3)),
                    curve.a),
                  FieldElement_multiply(p1.y, FieldElement_new(2)))
           ELSE FieldElement_divide(FieldElement_substract(p2.y, p1.y),
                                    FieldElement_substract(p2.x, p1.x)),
           p1, p2)

EllipticCurve_add_ext_y3(m, p1, x3) ==
    [x |-> x3,
     y |-> FieldElementExt_substract(
             FieldElementExt_multiply(m, FieldElementExt_substract(p1.x, x3)),
             p1.y),
     is_infinity |-> FALSE]

EllipticCurve_add_ext_x3(m, p1, p2) ==
    EllipticCurve_add_ext_y3(m, p1,
        FieldElementExt_substract(
            FieldElementExt_substract(FieldElementExt_multiply(m, m), p1.x),
            p2.x))

\* The slope of add_ext keeps only the real parts (.a) of numerator and
\* denominator, divides them in F_101 and has imaginary part zero.
EllipticCurve_add_ext_slope(num, den) ==
    FieldElementExt_new(FieldElement_divide(num.a, den.a), FieldElement_zero)

EllipticCurve_add_ext(curve, p1, p2) ==
    IF p1.is_infinity THEN p2
    ELSE IF p2.is_infinity THEN p1
    ELSE IF p1.x = p2.x /\ p1.y /= p2.y THEN PointExt_infinity
    ELSE EllipticCurve_add_ext_x3(
           IF p1 = p2
           THEN EllipticCurve_add_ext_slope(
                  FieldElementExt_add(
                    FieldElementExt_multiply(
                      FieldElementExt_multiply(p1.x, p1.x),
                      FieldElementExt_new(FieldElement_new(3), FieldElement_zero)),
                    FieldElementExt_new(curve.a, FieldElement_zero)),
                  FieldElementExt_multiply(
                    p1.y,
                    FieldElementExt_new(FieldElement_new(2), FieldElement_zero)))
           ELSE EllipticCurve_add_ext_slope(
                  FieldElementExt_substract(p1.y, p2.y),
                  FieldElementExt_substract(p1.x, p2.x)),
           p1, p2)

\* Mutant of the loop of scalar_mul: temp is not doubled.
RECURSIVE Point_scalar_mul_loop_no_doubling(_, _, _, _)
Point_scalar_mul_loop_no_doubling(curve, result, temp, s) ==
    IF s > 0
    THEN Point_scalar_mul_loop_no_doubling(
           curve,
           IF s % 2 = 1 THEN EllipticCurve_add(curve, result, temp) ELSE result,
           temp,
           s \div 2)
    ELSE result

\* The while loop of Point::scalar_mul over (result, temp, s).
RECURSIVE Point_scalar_mul_loop(_, _, _, _)
Point_scalar_mul_loop(curve, result, temp, s) ==
    IF s > 0
    THEN Point_scalar_mul_loop(
           curve,
           IF s % 2 = 1 THEN EllipticCurve_add(curve, result, temp) ELSE result,
           EllipticCurve_add(curve, temp, temp),
           s \div 2)
    ELSE result

Point_scalar_mul(self, curve, scalar) ==
    Point_scalar_mul_loop(curve, Point_infinity, self, scalar)

RECURSIVE PointExt_scalar_mul_loop(_, _, _, _)
PointExt_scalar_mul_loop(curve, result, temp, s) ==
    IF s > 0
    THEN PointExt_scalar_mul_loop(
           curve,
           IF s % 2 = 1 THEN EllipticCurve_add_ext(curve, result, temp) ELSE result,
           EllipticCurve_add_ext(curve, temp, temp),
           s \div 2)
    ELSE result

PointExt_scalar_mul(self, curve, scalar) ==
    PointExt_scalar_mul_loop(curve, PointExt_infinity, self, scalar)

(***************************************************************************)
(* my_math/toy_pairing.rs                                                  *)
(***************************************************************************)
Pairing_new(a, b) == [e |-> FieldElement_multiply(a, b)]

(***************************************************************************)
(* The Polynomial of the KZG protocol (ark_plonk/polynomial.rs): a vector  *)
(* of coefficients, index i the coefficient of x^i, stored as given.       *)
(* A Rust vector v is the sequence with v[i] at position i + 1.            *)
(***************************************************************************)
At(v, i) == v[i + 1]

PlonkPolynomial_new(coeffs) == [coeffs |-> coeffs]

\* fold over coeffs.iter().rev(): acc = acc * x + coeff
RECURSIVE PlonkPolynomial_evaluate_fold(_, _, _, _)
PlonkPolynomial_evaluate_fold(coeffs, x, k, acc) ==
    IF k = 0
    THEN acc
    ELSE PlonkPolynomial_evaluate_fold(
           coeffs, x, k - 1,
           FieldElement_add(FieldElement_multiply(acc, x), coeffs[k]))

PlonkPolynomial_evaluate(self, x) ==
    PlonkPolynomial_evaluate_fold(self.coeffs, x, Len(self.coeffs),
                                  FieldElement_zero)

\* get(i).unwrap_or(&zero)
PlonkPolynomial_get(self, i) ==
    IF i < Len(self.coeffs) THEN At(self.coeffs, i) ELSE FieldElement_zero

PlonkPolynomial_add(self, other) ==
    PlonkPolynomial_new(
        [k \in 1..(IF Len(self.coeffs) >= Len(other.coeffs)
                   THEN Len(self.coeffs) ELSE Len(other.coeffs)) |->
            FieldElement_add(PlonkPolynomial_get(self, k - 1),
                             PlonkPolynomial_get(other, k - 1))])

(***************************************************************************)
(* my_plonk/kzg.rs                                                         *)
(***************************************************************************)
\* KZG::new(degree) with the drawn scalar t.
KZG_new(degree, t) ==
    LET curve == EllipticCurve_new
        g == generator_g1(curve)
        h == generator_g2(curve)
    IN  [state |-> "Ready",
         curve |-> curve,
         setup_g1 |-> <<g>> \o [n \in 1..degree |->
                          Point_scalar_mul(g, curve, FieldElement_pow(t, n))],
         setup_g2 |-> <<h, PointExt_scalar_mul(h, curve, t)>>]

\* The outcome of a call: a value, or the panic that ended it.
Ok(v) == [status |-> "Ok", reason |-> "", value |-> v]

Panic(why) == [status |-> "Panic", reason |-> why, value |-> <<>>]

\* The accumulation loop of commit and prove: for i in 0..=degree, started at
\* index i with the accumulator acc.  Indexing coeffs or setup_g1 past the
\* end panics.
RECURSIVE KZG_msm_loop(_, _, _, _, _)
KZG_msm_loop(self, coeffs, degree, i, acc) ==
    IF i > degree
    THEN Ok(acc)
    ELSE IF i >= Len(coeffs)
    THEN Panic("index out of bounds: coeffs")
    ELSE IF i >= Len(self.setup_g1)
    THEN Panic("index out of bounds: setup_g1")
    ELSE LET coeff == At(coeffs, i)
             power == At(self.setup_g1, i)
             scaled_power == Point_scalar_mul(power, self.curve, coeff)
         IN  KZG_msm_loop(self, coeffs, degree, i + 1,
                          EllipticCurve_add(self.curve, acc, scaled_power))

\* usize `len - 1` with len = 0: a build with overflow checks (checked) panics
\* there; one without wraps to usize::MAX and the loop's first iteration
\* indexes coeffs[0] of the empty vector.
UsizeUnderflow(checked) ==
    IF checked THEN Panic("attempt to subtract with overflow")
    ELSE Panic("index out of bounds: coeffs")

\* Mutant of commit: the loop runs over 0..degree, leaving out the last
\* coefficient.
KZG_commit_skips_last(self, poly, checked) ==
    IF Len(poly.coeffs) = 0
    THEN UsizeUnderflow(checked)
    ELSE KZG_msm_loop(self, poly.coeffs, Len(poly.coeffs) - 2, 0,
                      Point_infinity)

KZG_commit(self, poly, checked) ==
    IF Len(poly.coeffs) = 0
    THEN UsizeUnderflow(checked)
    ELSE KZG_msm_loop(self, poly.coeffs, Len(poly.coeffs) - 1, 0,
                      Point_infinity)

\* Mutant of the synthetic division loop: the quotient coefficient is read
\* from remainder[i - 1] instead of remainder[i].
RECURSIVE KZG_prove_loop_off_by_one(_, _, _, _)
KZG_prove_loop_off_by_one(q_coeffs, remainder, z, i) ==
    IF i < 1
    THEN [q_coeffs |-> q_coeffs, remainder |-> remainder]
    ELSE LET q1 == [q_coeffs EXCEPT ![i] = At(remainder, i - 1)]
             r1 == [remainder EXCEPT ![i + 1] = FieldElement_new(0)]
             r2 == [r1 EXCEPT ![i] = FieldElement_substract(
                                       At(r1, i - 1),
                                       FieldElement_multiply(At(q1, i - 1), z))]
         IN  KZG_prove_loop_off_by_one(q1, r2, z, i - 1)

\* The synthetic division loop of prove: for i in (1..len).rev(), on
\* (q_coeffs, remainder).
RECURSIVE KZG_prove_loop(_, _, _, _)
KZG_prove_loop(q_coeffs, remainder, z, i) ==
    IF i < 1
    THEN [q_coeffs |-> q_coeffs, remainder |-> remainder]
    ELSE LET q1 == [q_coeffs EXCEPT ![i] = At(remainder, i)]
             r1 == [remainder EXCEPT ![i + 1] = FieldElement_new(0)]
             r2 == [r1 EXCEPT ![i] = FieldElement_substract(
                                       At(r1, i - 1),
                                       FieldElement_multiply(At(q1, i - 1), z))]
         IN  KZG_prove_loop(q1, r2, z, i - 1)

KZG_prove(self, poly, z, checked) ==
    LET y == PlonkPolynomial_evaluate(poly, z)
        n == Len(poly.coeffs)
    IN  IF n = 0
        THEN IF checked THEN Panic("attempt to subtract with overflow")
             ELSE Panic("capacity overflow")
        ELSE
          LET q_init == [k \in 1..(n - 1) |-> FieldElement_new(0)]
              r_init == [poly.coeffs EXCEPT
                           ![1] = FieldElement_substract(poly.coeffs[1], y)]
              loop == KZG_prove_loop(q_init, r_init, z, n - 1)
              q_poly == [coeffs |-> loop.q_coeffs]
          IN  IF Len(q_poly.coeffs) = 0
              THEN UsizeUnderflow(checked)
              ELSE LET msm == KZG_msm_loop(self, q_poly.coeffs,
                                           Len(q_poly.coeffs) - 1, 0,
                                           Point_infinity)
                   IN  IF msm.status = "Ok"
                       THEN Ok([y |-> y, proof |-> msm.value,
                                q_coeffs |-> q_poly.coeffs,
                                remainder |-> loop.remainder])
                       ELSE msm

map_to_scalar(p) == IF p.is_infinity THEN FieldElement_new(1) ELSE p.x

map_to_scalar_ext(p) == IF p.is_infinity THEN FieldElement_new(1) ELSE p.x.a

KZG_verify(self, commitment, z, y, proof) ==
    LET g1 == At(self.setup_g1, 0)
        g2 == At(self.setup_g2, 0)
        tau_g2 == At(self.setup_g2, 1)
        y_g1 == Point_scalar_mul(g1, self.curve, y)
        commitment_minus_y_g1 ==
            EllipticCurve_add(self.curve, commitment,
                Point_scalar_mul(y_g1, self.curve,
                                 FieldElement_new(MODULUS - 1)))
        z_g2 == PointExt_scalar_mul(g2, self.curve, z)
        tau_g2_minus_z_g2 ==
            EllipticCurve_add_ext(self.curve, tau_g2,
                PointExt_scalar_mul(z_g2, self.curve,
                                    FieldElement_new(MODULUS - 1)))
        left == Pairing_new(map_to_scalar(commitment_minus_y_g1),
                            map_to_scalar_ext(g2))
        right == Pairing_new(map_to_scalar(proof),
                             map_to_scalar_ext(tau_g2_minus_z_g2))
    IN  [left |-> left.e, right |-> right.e,
         lhs_g1 |-> commitment_minus_y_g1, rhs_g2 |-> tau_g2_minus_z_g2,
         result |-> TRUE]

(***************************************************************************)
(* math/field.rs: FieldElement carrying its modulus, [value, order].  The  *)
(* binary operations assert that both operands have the same order; the    *)
(* polynomial code below only combines elements of the polynomial's order. *)
(***************************************************************************)
math_FieldElement_new(value, order) == [value |-> value % order, order |-> order]

math_FieldElement_zero(order) == math_FieldElement_new(0, order)

math_FieldElement_one(order) == math_FieldElement_new(1, order)

math_FieldElement_add(self, other) ==
    math_FieldElement_new(self.value + other.value, self.order)

math_FieldElement_substract(self, other) ==
    math_FieldElement_new(self.value + self.order - other.value, self.order)

math_FieldElement_multiply(self, other) ==
    math_FieldElement_new(self.value * other.value, self.order)

math_FieldElement_mod_inverse(self) ==
    LET g == ext_gcd(self.value, self.order)
    IN  IF g[3] /= 1
        THEN None
        ELSE Some(RustRem(RustRem(g[1], self.order) + self.order, self.order))

math_FieldElement_inverse_of(self, inv) ==
    IF inv.is_some
    THEN [value |-> inv.value, order |-> self.order]
    ELSE math_FieldElement_zero(self.order)

math_FieldElement_inverse(self) ==
    math_FieldElement_inverse_of(self, math_FieldElement_mod_inverse(self))

\* divide(&self, b: u64): b is wrapped into an element of self's order as it is.
math_FieldElement_divide(self, b) ==
    math_FieldElement_multiply(
        self,
        [value |-> math_FieldElement_inverse([value |-> b,
                                              order |-> self.order]).value,
         order |-> self.order])

\* The loop of math/field.rs pow over bit positions n = 31 down to 0: a set bit
\* after the first squares the result and multiplies it by the element 2.
RECURSIVE math_FieldElement_pow_loop(_, _, _, _, _)
math_FieldElement_pow_loop(self, exp, n, fsb_found, result) ==
    IF n < 0
    THEN result
    ELSE LET bin == (exp \div (2 ^ n)) % 2
         IN  IF fsb_found
             THEN IF bin = 1
                  THEN math_FieldElement_pow_loop(self, exp, n - 1, TRUE,
                         math_FieldElement_multiply(
                           math_FieldElement_multiply(result, result),
                           [value |-> 2, order |-> self.order]))
                  ELSE math_FieldElement_pow_loop(self, exp, n - 1, TRUE,
                         math_FieldElement_multiply(result, result))
             ELSE IF bin = 1
                  THEN math_FieldElement_pow_loop(self, exp, n - 1, TRUE, result)
                  ELSE math_FieldElement_pow_loop(self, exp, n - 1, FALSE, result)

\* There is no exp = 0 case: the loop finds no set bit and returns self.
math_FieldElement_pow(self, exp) ==
    math_FieldElement_pow_loop(self, exp, PowBits - 1, FALSE, self)

math_FieldElement_negate(self) ==
    math_FieldElement_substract(math_FieldElement_new(self.order, self.order),
                                self)

\* add, substract and multiply as a caller sees them: the assert_eq! on the
\* two orders panics before any value is formed.
math_FieldElement_add_call(self, other) ==
    IF self.order /= other.order
    THEN Panic("Fields MUST have the same order")
    ELSE Ok(math_FieldElement_add(self, other))

math_FieldElement_substract_call(self, other) ==
    IF self.order /= other.order
    THEN Panic("Fields MUST have the same order")
    ELSE Ok(math_FieldElement_substract(self, other))

math_FieldElement_multiply_call(self, other) ==
    IF self.order /= other.order
    THEN Panic("Fields MUST have the same order")
    ELSE Ok(math_FieldElement_multiply(self, other))

\* divide(&self, b: u64) receives the divisor's value only; b_field and
\* inverse_b are built with self.order, so the assert in multiply never fires.
math_FieldElement_divide_call(self, other) ==
    Ok(math_FieldElement_divide(self, other.value))

(***************************************************************************)
(* my_math/polynomial.rs: Polynomial [coeffs, order].                      *)
(***************************************************************************)
Last(v) == v[Len(v)]

Pop(v) == SubSeq(v, 1, Len(v) - 1)

RECURSIVE Polynomial_trim(_)
Polynomial_trim(self) ==
    IF Len(self.coeffs) > 1
       /\ Last(self.coeffs) = math_FieldElement_zero(self.order)
    THEN Polynomial_trim([self EXCEPT !.coeffs = Pop(self.coeffs)])
    ELSE self

Polynomial_new(coeffs, order) ==
    Polynomial_trim(
        [coeffs |-> [k \in 1..Len(coeffs) |->
                        math_FieldElement_new(coeffs[k].value, order)],
         order |-> order])

\* fold over coeffs.iter().rev(): acc = acc * x + coeff
RECURSIVE Polynomial_evaluate_fold(_, _, _, _)
Polynomial_evaluate_fold(coeffs, x, k, acc) ==
    IF k = 0
    THEN acc
    ELSE Polynomial_evaluate_fold(
           coeffs, x, k - 1,
           math_FieldElement_add(math_FieldElement_multiply(acc, x), coeffs[k]))

Polynomial_evaluate(self, x) ==
    Polynomial_evaluate_fold(self.coeffs, x, Len(self.coeffs),
                             math_FieldElement_zero(self.order))

Polynomial_scalar_mul(self, scalar) ==
    [coeffs |-> [k \in 1..Len(self.coeffs) |->
                    math_FieldElement_multiply(self.coeffs[k], scalar)],
     order |-> self.order]

Polynomial_degree(self) ==
    IF Len(self.coeffs) = 0
       \/ \A k \in 1..Len(self.coeffs) :
            self.coeffs[k] = math_FieldElement_zero(self.order)
    THEN 0
    ELSE Len(self.coeffs) - 1

\* impl Add: pointwise, zero-padded to the longer length, then new().
Polynomial_add_coeff(self, i) ==
    IF i < Len(self.coeffs) THEN At(self.coeffs, i)
    ELSE math_FieldElement_zero(self.order)

Max(a, b) == IF a >= b THEN a ELSE b

Polynomial_add(self, other) ==
    Polynomial_new(
        [k \in 1..Max(Len(self.coeffs), Len(other.coeffs)) |->
            math_FieldElement_add(Polynomial_add_coeff(self, k - 1),
                                  Polynomial_add_coeff(other, k - 1))],
        self.order)

\* impl Mul: the loops for i in 0..n, for j in 0..m on result[i + j].
RECURSIVE Polynomial_mul_loop(_, _, _, _, _)
Polynomial_mul_loop(self, other, i, j, result) ==
    IF i >= Len(self.coeffs)
    THEN result
    ELSE IF j >= Len(other.coeffs)
    THEN Polynomial_mul_loop(self, other, i + 1, 0, result)
    ELSE Polynomial_mul_loop(self, other, i, j + 1,
           [result EXCEPT ![i + j + 1] =
              math_FieldElement_add(
                 result[i + j + 1],
                 math_FieldElement_multiply(At(self.coeffs, i),
                                            At(other.coeffs, j)))])

\* Both operands of the products formed by lagrange_interpolate are non-empty,
\* so n + m - 1 does not underflow.
Polynomial_mul(self, other) ==
    Polynomial_new(
        Polynomial_mul_loop(self, other, 0, 0,
            [k \in 1..(Len(self.coeffs) + Len(other.coeffs) - 1) |->
                math_FieldElement_zero(self.order)]),
        self.order)

\* impl Mul as a caller sees it: vec![zero; n + m - 1] with n = m = 0 is the
\* usize subtraction 0 - 1; a build with overflow checks panics there, one
\* without asks vec! for usize::MAX elements and panics on the capacity.
Polynomial_mul_call(self, other, checked) ==
    IF Len(self.coeffs) + Len(other.coeffs) = 0
    THEN IF checked THEN Panic("attempt to subtract with overflow")
         ELSE Panic("capacity overflow")
    ELSE Ok(Polynomial_mul(self, other))

\* impl Sub: other's coefficients negated into a struct built in place, then
\* self + negated.
Polynomial_sub(self, other) ==
    Polynomial_add(self,
        [coeffs |-> [k \in 1..Len(other.coeffs) |->
                        math_FieldElement_negate(other.coeffs[k])],
         order |-> other.order])

\* vanishing_polynomial: n + 1 zeros, then coeffs[0] = -1, then coeffs[n] = 1
\* (for n = 0 the second assignment lands on index 0 again).
Polynomial_vanishing_polynomial(n, order) ==
    Polynomial_new(
        [[[k \in 1..(n + 1) |-> math_FieldElement_zero(order)]
            EXCEPT ![1] = math_FieldElement_negate(
                            math_FieldElement_new(1, order))]
            EXCEPT ![n + 1] = math_FieldElement_one(order)],
        order)

\* Mutant of the inner loop: the product term * divisor[j] is added to the
\* dividend instead of subtracted.
RECURSIVE Polynomial_divide_inner_adds(_, _, _, _, _)
Polynomial_divide_inner_adds(divisor, term, dividend_deg, j, dividend) ==
    IF j >= Len(divisor.coeffs)
    THEN dividend
    ELSE Polynomial_divide_inner_adds(divisor, term, dividend_deg, j + 1,
           [dividend EXCEPT
              ![dividend_deg - (Len(divisor.coeffs) - 1 - j) + 1] =
                 math_FieldElement_add(
                    At(dividend, dividend_deg - (Len(divisor.coeffs) - 1 - j)),
                    math_FieldElement_multiply(At(divisor.coeffs, j), term))])

\* divide: the inner loop for j in 0..divisor.coeffs.len().
RECURSIVE Polynomial_divide_inner(_, _, _, _, _)
Polynomial_divide_inner(divisor, term, dividend_deg, j, dividend) ==
    IF j >= Len(divisor.coeffs)
    THEN dividend
    ELSE Polynomial_divide_inner(divisor, term, dividend_deg, j + 1,
           [dividend EXCEPT
              ![dividend_deg - (Len(divisor.coeffs) - 1 - j) + 1] =
                 math_FieldElement_substract(
                    At(dividend, dividend_deg - (Len(divisor.coeffs) - 1 - j)),
                    math_FieldElement_multiply(At(divisor.coeffs, j), term))])

\* divide: the outer loop for i in (0..quotient.len()).rev().
RECURSIVE Polynomial_divide_outer(_, _, _, _, _)
Polynomial_divide_outer(divisor, inv_divisor_lead, i, quotient, dividend) ==
    IF i < 0
    THEN [quotient |-> quotient, dividend |-> dividend]
    ELSE Polynomial_divide_outer(divisor, inv_divisor_lead, i - 1,
           [quotient EXCEPT ![i + 1] =
              math_FieldElement_multiply(
                 At(dividend, i + Len(divisor.coeffs) - 1), inv_divisor_lead)],
           Polynomial_divide_inner(
              divisor,
              math_FieldElement_multiply(
                 At(dividend, i + Len(divisor.coeffs) - 1), inv_divisor_lead),
              i + Len(divisor.coeffs) - 1, 0, dividend))

\* divide: "Trim leading zeros from remainder".
RECURSIVE Polynomial_divide_trim(_, _, _)
Polynomial_divide_trim(dividend, divisor_deg, order) ==
    IF Len(dividend) > divisor_deg
       /\ Last(dividend) = math_FieldElement_zero(order)
    THEN Polynomial_divide_trim(Pop(dividend), divisor_deg, order)
    ELSE dividend

Polynomial_divide_result(self, divisor_deg, loop) ==
    Ok([quotient |-> Polynomial_new(loop.quotient, self.order),
        remainder |-> Polynomial_new(
            Polynomial_divide_trim(loop.dividend, divisor_deg, self.order),
            self.order)])

Polynomial_divide(self, divisor) ==
    IF Len(divisor.coeffs) = 0
    THEN Panic("Cannot divide by zero polynomial")
    ELSE IF Len(divisor.coeffs) = 1
    THEN Ok([quotient |-> Polynomial_new(
                Polynomial_scalar_mul(
                    self, math_FieldElement_inverse(divisor.coeffs[1])).coeffs,
                self.order),
             remainder |-> Polynomial_new(<<>>, self.order)])
    ELSE IF Len(self.coeffs) <= Len(divisor.coeffs) - 1
    THEN Ok([quotient |-> Polynomial_new(<<>>, self.order),
             remainder |-> Polynomial_new(self.coeffs, self.order)])
    ELSE Polynomial_divide_result(
           self, Len(divisor.coeffs) - 1,
           Polynomial_divide_outer(
              divisor, math_FieldElement_inverse(Last(divisor.coeffs)),
              Len(self.coeffs) - (Len(divisor.coeffs) - 1) - 1,
              [k \in 1..(Len(self.coeffs) - (Len(divisor.coeffs) - 1)) |->
                  math_FieldElement_zero(self.order)],
              self.coeffs))

\* lagrange_interpolate: the inner loop over j, on (term, denominator).
RECURSIVE Polynomial_lagrange_inner(_, _, _, _, _, _)
Polynomial_lagrange_inner(points, order, i, j, term, denominator) ==
    IF j >= Len(points)
    THEN [term |-> term, denominator |-> denominator]
    ELSE IF i /= j
    THEN Polynomial_lagrange_inner(points, order, i, j + 1,
           Polynomial_mul(
              term,
              Polynomial_new(<<math_FieldElement_negate(At(points, j)[1]),
                               math_FieldElement_one(order)>>, order)),
           math_FieldElement_multiply(
              denominator,
              math_FieldElement_substract(At(points, i)[1], At(points, j)[1])))
    ELSE Polynomial_lagrange_inner(points, order, i, j + 1, term, denominator)

\* Mutant of the term: the product of the numerators is scaled by the
\* denominator itself, not by its inverse.
Polynomial_lagrange_term_no_inverse(inner, yi) ==
    Polynomial_scalar_mul(
        Polynomial_scalar_mul(inner.term, inner.denominator), yi)

\* The term y_i * l_i(x) from the inner loop's (term, denominator).
Polynomial_lagrange_term(inner, yi) ==
    Polynomial_scalar_mul(
        Polynomial_scalar_mul(inner.term,
                              math_FieldElement_inverse(inner.denominator)),
        yi)

\* lagrange_interpolate: the outer loop over i, on result.
RECURSIVE Polynomial_lagrange_outer(_, _, _, _)
Polynomial_lagrange_outer(points, order, i, result) ==
    IF i >= Len(points)
    THEN result
    ELSE Polynomial_lagrange_outer(points, order, i + 1,
           Polynomial_add(
              result,
              Polynomial_lagrange_term(
                 Polynomial_lagrange_inner(
                    points, order, i, 0,
                    Polynomial_new(<<math_FieldElement_one(order)>>, order),
                    math_FieldElement_one(order)),
                 At(points, i)[2])))

Polynomial_lagrange_interpolate(points, order) ==
    IF Len(points) = 0
    THEN Panic("Need at least one point")
    ELSE Ok(Polynomial_lagrange_outer(points, order, 0,
                                      Polynomial_new(<<>>, order)))

(***************************************************************************)
(* The KZG state machine: Uninitialized -> Ready by Setup, then any        *)
(* sequence of commit, prove (open) and verify calls.                      *)
(***************************************************************************)
Uninitialized ==
    [state |-> "Uninitialized", curve |-> EllipticCurve_new,
     setup_g1 |-> <<>>, setup_g2 |-> <<>>]

Idle == [op |-> "idle", args |-> <<>>, out |-> Ok(<<>>)]

\* The inputs of the calls.
Coeffs == 0..MaxCoeff

Polys == UNION {[1..n -> Coeffs] : n \in 0..MaxLen}

TripValues == 0..MaxTrip

G1Points ==
    {Point_scalar_mul(generator_g1(EllipticCurve_new), EllipticCurve_new, k) :
        k \in 0..MaxScalar}

Init ==
    /\ kzg = Uninitialized
    /\ tau = 0
    /\ max_degree = 0
    /\ call = Idle
    /\ pcall = Idle
    /\ ecall = Idle
    /\ reg = <<generator_g1(EllipticCurve_new), generator_g1(EllipticCurve_new)>>
    /\ fcall = Idle

\* KZG::new(degree): tau is drawn by rng.gen_range(1..MODULUS).
Setup ==
    /\ kzg.state = "Uninitialized"
    /\ \E degree \in 0..MaxDegree, t \in 1..(MODULUS - 1) :
         /\ kzg' = KZG_new(degree, FieldElement_new(t))
         /\ tau' = FieldElement_new(t)
         /\ max_degree' = degree
    /\ UNCHANGED <<call, pcall, ecall, reg, fcall>>

\* Mutant of Commit: the call overwrites the first power of the SRS.
Commit_overwrites_srs ==
    /\ kzg.state = "Ready"
    /\ call.op = "idle"
    /\ \E coeffs \in Polys, checked \in BOOLEAN :
         LET poly == PlonkPolynomial_new(coeffs)
         IN  call' = [op |-> "commit",
                      args |-> [poly |-> poly],
                      out |-> KZG_commit(kzg, poly, checked)]
    /\ kzg' = [kzg EXCEPT !.setup_g1[1] = Point_infinity]
    /\ UNCHANGED <<tau, max_degree, pcall, ecall, reg, fcall>>

Commit ==
    /\ kzg.state = "Ready"
    /\ call.op = "idle"
    /\ \E coeffs \in Polys, checked \in BOOLEAN :
         LET poly == PlonkPolynomial_new(coeffs)
         IN  call' = [op |-> "commit",
                      args |-> [poly |-> poly],
                      out |-> KZG_commit(kzg, poly, checked)]
    /\ UNCHANGED <<kzg, tau, max_degree, pcall, ecall, reg, fcall>>

Prove ==
    /\ kzg.state = "Ready"
    /\ call.op = "idle"
    /\ \E coeffs \in Polys, z \in Coeffs, checked \in BOOLEAN :
         LET poly == PlonkPolynomial_new(coeffs)
         IN  call' = [op |-> "prove",
                      args |-> [poly |-> poly, z |-> FieldElement_new(z)],
                      out |-> KZG_prove(kzg, poly, FieldElement_new(z), checked)]
    /\ UNCHANGED <<kzg, tau, max_degree, pcall, ecall, reg, fcall>>

Verify ==
    /\ kzg.state = "Ready"
    /\ call.op = "idle"
    /\ \E commitment \in G1Points, proof \in G1Points, z \in Coeffs, y \in Coeffs :
         call' = [op |-> "verify",
                  args |-> [commitment |-> commitment, z |-> z, y |-> y,
                            proof |-> proof],
                  out |-> Ok(KZG_verify(kzg, commitment, z, y, proof))]
    /\ UNCHANGED <<kzg, tau, max_degree, pcall, ecall, reg, fcall>>

\* A caller commits to p + q and to p and q apiece, and adds the two
\* commitments; the coefficients are 0, 1 and MODULUS - 1.
HomMaxLen == 1

HomCoeffs == {0, 1, MODULUS - 1}

commit_sum(self, p, q) ==
    Ok([of_sum |-> KZG_commit(self, PlonkPolynomial_add(p, q), TRUE).value,
        sum_of |-> EllipticCurve_add(self.curve,
                                     KZG_commit(self, p, TRUE).value,
                                     KZG_commit(self, q, TRUE).value)])

CommitSum ==
    /\ kzg.state = "Ready"
    /\ call.op = "idle"
    /\ \E n \in 1..HomMaxLen, m \in 1..HomMaxLen :
         /\ n <= max_degree + 1
         /\ m <= max_degree + 1
         /\ \E p \in [1..n -> HomCoeffs], q \in [1..m -> HomCoeffs] :
              call' = [op |-> "commit_sum",
                       args |-> [p |-> PlonkPolynomial_new(p),
                                 q |-> PlonkPolynomial_new(q)],
                       out |-> commit_sum(kzg, PlonkPolynomial_new(p),
                                          PlonkPolynomial_new(q))]
    /\ UNCHANGED <<kzg, tau, max_degree, pcall, ecall, reg, fcall>>

\* test_kzg on the instance built by KZG::new(2), for a linear polynomial
\* a + b x and a point z: commit, prove, then verify what they returned.
test_kzg_verify(self, z, commitment, opened) ==
    Ok([commitment |-> commitment,
        y |-> opened.y,
        proof |-> opened.proof,
        verified |-> KZG_verify(self, commitment, z, opened.y,
                                opened.proof).result])

test_kzg(self, poly, z) ==
    test_kzg_verify(self, z, KZG_commit(self, poly, TRUE).value,
                    KZG_prove(self, poly, z, TRUE).value)

RoundTrip ==
    /\ kzg.state = "Ready"
    /\ Len(kzg.setup_g1) = 3
    /\ call.op = "idle"
    /\ \E a \in TripValues, b \in TripValues, z \in TripValues :
         call' = [op |-> "test_kzg",
                  args |-> [poly |-> PlonkPolynomial_new(<<a, b>>), z |-> z],
                  out |-> test_kzg(kzg, PlonkPolynomial_new(<<a, b>>), z)]
    /\ UNCHANGED <<kzg, tau, max_degree, pcall, ecall, reg, fcall>>

\* A call that returned hands its result to the caller; a panic ends the run.
Return ==
    /\ call.op /= "idle"
    /\ call.out.status = "Ok"
    /\ call' = Idle
    /\ UNCHANGED <<kzg, tau, max_degree, pcall, ecall, reg, fcall>>

(***************************************************************************)
(* Calls into the Polynomial library.                                      *)
(***************************************************************************)
Orders == {7, MODULUS}

\* The polynomials a caller can build: Polynomial::new on a coefficient vector.
RawCoeffs(order) ==
    UNION {[1..n -> {math_FieldElement_new(c, order) : c \in 0..PolyMaxCoeff}] :
              n \in 0..PolyMaxLen}

PolyInputs(order) == {Polynomial_new(raw, order) : raw \in RawCoeffs(order)}

PointInputs(order) ==
    {<<math_FieldElement_new(x, order), math_FieldElement_new(y, order)>> :
        x \in 0..PolyMaxCoeff, y \in 0..PolyMaxCoeff}

PointLists(order) == UNION {[1..n -> PointInputs(order)] : n \in 0..MaxPoints}

PolyDivide ==
    /\ pcall.op = "idle"
    /\ \E order \in Orders :
         \E self \in PolyInputs(order), divisor \in PolyInputs(order) :
           pcall' = [op |-> "divide",
                     args |-> [self |-> self, divisor |-> divisor],
                     out |-> Polynomial_divide(self, divisor)]
    /\ UNCHANGED <<kzg, tau, max_degree, call, ecall, reg, fcall>>

PolyInterpolate ==
    /\ pcall.op = "idle"
    /\ \E order \in Orders :
         \E points \in PointLists(order) :
           pcall' = [op |-> "lagrange_interpolate",
                     args |-> [points |-> points, order |-> order],
                     out |-> Polynomial_lagrange_interpolate(points, order)]
    /\ UNCHANGED <<kzg, tau, max_degree, call, ecall, reg, fcall>>

\* test_lagrange_interpolate: the points (0,1), (1,2), (2,4) over order 7.
test_lagrange_points ==
    <<<<math_FieldElement_new(0, 7), math_FieldElement_new(1, 7)>>,
      <<math_FieldElement_new(1, 7), math_FieldElement_new(2, 7)>>,
      <<math_FieldElement_new(2, 7), math_FieldElement_new(4, 7)>>>>

PolyTestInterpolate ==
    /\ pcall.op = "idle"
    /\ pcall' = [op |-> "lagrange_interpolate",
                 args |-> [points |-> test_lagrange_points, order |-> 7],
                 out |-> Polynomial_lagrange_interpolate(test_lagrange_points, 7)]
    /\ UNCHANGED <<kzg, tau, max_degree, call, ecall, reg, fcall>>

PolyReturn ==
    /\ pcall.op /= "idle"
    /\ pcall.out.status = "Ok"
    /\ pcall' = Idle
    /\ UNCHANGED <<kzg, tau, max_degree, call, ecall, reg, fcall>>

PolyNext == PolyDivide \/ PolyInterpolate \/ PolyTestInterpolate \/ PolyReturn

SpecPoly == Init /\ [][PolyNext]_vars

(***************************************************************************)
(* The polynomial algebra of my_math/polynomial.rs, one call at a time, on *)
(* the polynomials of a small prime field.                                 *)
(***************************************************************************)
AlgMaxLen == 2

AlgMaxCoeff == 2

AlgMaxN == 3

AlgOrders == {3, 7}

AlgRaw(order) ==
    UNION {[1..n -> {math_FieldElement_new(c, order) : c \in 0..AlgMaxCoeff}] :
              n \in 0..AlgMaxLen}

AlgInputs(order) == {Polynomial_new(raw, order) : raw \in AlgRaw(order)}

AlgPoints(order) ==
    UNION {[1..n -> {<<math_FieldElement_new(x, order),
                       math_FieldElement_new(y, order)>> :
                        x \in 0..AlgMaxCoeff, y \in 0..AlgMaxCoeff}] :
              n \in 0..AlgMaxLen}

AlgNew ==
    /\ pcall.op = "idle"
    /\ \E order \in AlgOrders :
         \E raw \in AlgRaw(order) :
           pcall' = [op |-> "new", args |-> [coeffs |-> raw, order |-> order],
                     out |-> Ok(Polynomial_new(raw, order))]
    /\ UNCHANGED <<kzg, tau, max_degree, call, ecall, reg, fcall>>

AlgAdd ==
    /\ pcall.op = "idle"
    /\ \E order \in AlgOrders :
         \E self \in AlgInputs(order), other \in AlgInputs(order) :
           pcall' = [op |-> "add", args |-> [self |-> self, other |-> other],
                     out |-> Ok(Polynomial_add(self, other))]
    /\ UNCHANGED <<kzg, tau, max_degree, call, ecall, reg, fcall>>

AlgSub ==
    /\ pcall.op = "idle"
    /\ \E order \in AlgOrders :
         \E self \in AlgInputs(order), other \in AlgInputs(order) :
           pcall' = [op |-> "sub", args |-> [self |-> self, other |-> other],
                     out |-> Ok(Polynomial_sub(self, other))]
    /\ UNCHANGED <<kzg, tau, max_degree, call, ecall, reg, fcall>>

AlgMul ==
    /\ pcall.op = "idle"
    /\ \E order \in AlgOrders, checked \in BOOLEAN :
         \E self \in AlgInputs(order), other \in AlgInputs(order) :
           pcall' = [op |-> "mul",
                     args |-> [self |-> self, other |-> other,
                               checked |-> checked],
                     out |-> Polynomial_mul_call(self, other, checked)]
    /\ UNCHANGED <<kzg, tau, max_degree, call, ecall, reg, fcall>>

AlgScalarMul ==
    /\ pcall.op = "idle"
    /\ \E order \in AlgOrders :
         \E self \in AlgInputs(order), s \in 0..AlgMaxCoeff :
           pcall' = [op |-> "scalar_mul",
                     args |-> [self |-> self,
                               scalar |-> math_FieldElement_new(s, order)],
                     out |-> Ok(Polynomial_scalar_mul(
                                  self, math_FieldElement_new(s, order)))]
    /\ UNCHANGED <<kzg, tau, max_degree, call, ecall, reg, fcall>>

AlgVanishing ==
    /\ pcall.op = "idle"
    /\ \E order \in AlgOrders, n \in 0..AlgMaxN :
         pcall' = [op |-> "vanishing_polynomial",
                   args |-> [n |-> n, order |-> order],
                   out |-> Ok(Polynomial_vanishing_polynomial(n, order))]
    /\ UNCHANGED <<kzg, tau, max_degree, call, ecall, reg, fcall>>

AlgDivide ==
    /\ pcall.op = "idle"
    /\ \E order \in AlgOrders :
         \E self \in AlgInputs(order), divisor \in AlgInputs(order) :
           pcall' = [op |-> "alg_divide",
                     args |-> [self |-> self, divisor |-> divisor],
                     out |-> Polynomial_divide(self, divisor)]
    /\ UNCHANGED <<kzg, tau, max_degree, call, ecall, reg, fcall>>

AlgInterpolate ==
    /\ pcall.op = "idle"
    /\ \E order \in AlgOrders :
         \E points \in AlgPoints(order) :
           pcall' = [op |-> "alg_lagrange_interpolate",
                     args |-> [points |-> points, order |-> order],
                     out |-> Polynomial_lagrange_interpolate(points, order)]
    /\ UNCHANGED <<kzg, tau, max_degree, call, ecall, reg, fcall>>

\* test_polys: p1 = 1 + 2x + 3x^2 and p2 = 5 + 4x over order 7.
test_polys_p1 ==
    Polynomial_new(<<math_FieldElement_new(1, 7), math_FieldElement_new(2, 7),
                     math_FieldElement_new(3, 7)>>, 7)

test_polys_p2 ==
    Polynomial_new(<<math_FieldElement_new(5, 7),
                     math_FieldElement_new(4, 7)>>, 7)

AlgTestPolys ==
    /\ pcall.op = "idle"
    /\ \E checked \in BOOLEAN :
         pcall' = [op |-> "mul",
                   args |-> [self |-> test_polys_p1, other |-> test_polys_p2,
                             checked |-> checked],
                   out |-> Polynomial_mul_call(test_polys_p1, test_polys_p2,
                                               checked)]
    /\ UNCHANGED <<kzg, tau, max_degree, call, ecall, reg, fcall>>

\* ark_plonk/polynomial.rs: new keeps the vector it is given.
AlgPlonkNew ==
    /\ pcall.op = "idle"
    /\ \E n \in 0..AlgMaxLen :
         \E raw \in [1..n -> {FieldElement_new(c) : c \in 0..AlgMaxCoeff}] :
           pcall' = [op |-> "plonk_new", args |-> [coeffs |-> raw],
                     out |-> Ok(PlonkPolynomial_new(raw))]
    /\ UNCHANGED <<kzg, tau, max_degree, call, ecall, reg, fcall>>

AlgNext ==
    \/ AlgNew \/ AlgAdd \/ AlgSub \/ AlgMul \/ AlgScalarMul \/ AlgVanishing
    \/ AlgDivide \/ AlgInterpolate \/ AlgTestPolys \/ AlgPlonkNew
    \/ PolyReturn

SpecAlg == Init /\ [][AlgNext]_vars

Next ==
    Setup \/ Commit \/ Prove \/ Verify \/ RoundTrip \/ CommitSum \/ Return

Spec == Init /\ [][Next]_vars

(***************************************************************************)
(* math/elliptic_curve.rs: construction of a curve y^2 = x^3 + a x + b     *)
(* over the per-value-modulus field.                                       *)
(***************************************************************************)
math_EllipticCurve_discriminant(a, b, order) ==
    math_FieldElement_multiply(
        math_FieldElement_negate(math_FieldElement_new(16, order)),
        math_FieldElement_add(
            math_FieldElement_multiply(math_FieldElement_new(4, order),
                                       math_FieldElement_pow(a, 3)),
            math_FieldElement_multiply(math_FieldElement_new(27, order),
                                       math_FieldElement_pow(b, 2))))

math_EllipticCurve_new(a, b) ==
    IF a.order /= b.order
    THEN Panic("Coefficients must be in the same field")
    ELSE IF math_EllipticCurve_discriminant(a, b, a.order)
              = math_FieldElement_zero(a.order)
         THEN Panic("Must be a valid elliptic curve")
         ELSE Ok([a |-> a, b |-> b, order |-> a.order])

\* math/elliptic_curve.rs: enum Point { Infinity, Affine(x, y) }.
math_Point_Infinity == [is_infinity |-> TRUE, x |-> <<>>, y |-> <<>>]

math_Point_Affine(x, y) == [is_infinity |-> FALSE, x |-> x, y |-> y]

\* curve.point(x, y): asserts y^2 = x^3 + a x + b before building the point.
math_EllipticCurve_point(self, x, y) ==
    IF x.order /= self.order \/ y.order /= self.order
    THEN Panic("Point must be in the curve's field")
    ELSE IF math_FieldElement_multiply(y, y)
              /= math_FieldElement_add(
                   math_FieldElement_add(
                     math_FieldElement_multiply(
                       math_FieldElement_multiply(x, x), x),
                     math_FieldElement_multiply(self.a, x)),
                   self.b)
         THEN Panic("not on curve")
         ELSE Ok(math_Point_Affine(x, y))

math_Point_add_y3(lambda, p1, x3) ==
    math_Point_Affine(
        x3,
        math_FieldElement_substract(
            math_FieldElement_multiply(lambda,
                                       math_FieldElement_substract(p1.x, x3)),
            p1.y))

math_Point_add_x3(lambda, p1, p2) ==
    math_Point_add_y3(lambda, p1,
        math_FieldElement_substract(
            math_FieldElement_substract(
                math_FieldElement_multiply(lambda, lambda), p1.x),
            p2.x))

\* impl Add for Point; the doubling numerator is 3 x1^2 + zero(curve_order),
\* the curve's a is not available to the operator.
math_Point_add(self, other) ==
    IF self.is_infinity THEN Ok(other)
    ELSE IF other.is_infinity THEN Ok(self)
    ELSE IF self.x.order /= other.x.order
    THEN Panic("Points must be in the same field")
    ELSE IF self.x = other.x /\ self.y = math_FieldElement_negate(other.y)
    THEN Ok(math_Point_Infinity)
    ELSE Ok(math_Point_add_x3(
           IF self.x = other.x /\ self.y = other.y
           THEN math_FieldElement_divide(
                  math_FieldElement_add(
                    math_FieldElement_multiply(
                      math_FieldElement_multiply(self.x, self.x),
                      math_FieldElement_new(3, self.x.order)),
                    math_FieldElement_zero(self.x.order)),
                  math_FieldElement_multiply(
                    self.y, math_FieldElement_new(2, self.x.order)).value)
           ELSE math_FieldElement_divide(
                  math_FieldElement_substract(other.y, self.y),
                  math_FieldElement_substract(other.x, self.x).value),
           self, other))

(***************************************************************************)
(* Calls into the curve library: add, add_ext and scalar_mul on points a   *)
(* caller can hold, and curve construction.                                *)
(***************************************************************************)
MaxExtScalar == 5   \* add_ext is handed the points scalar_mul(g2, k), k in 0..MaxExtScalar

\* The affine points of the curve of EllipticCurve::new over F_101.
CurvePoints ==
    {pt \in [x : 0..(MODULUS - 1), y : 0..(MODULUS - 1), is_infinity : {FALSE}] :
        FieldElement_multiply(pt.y, pt.y)
          = FieldElement_add(
              FieldElement_add(
                FieldElement_multiply(FieldElement_multiply(pt.x, pt.x), pt.x),
                FieldElement_multiply(EllipticCurve_new.a, pt.x)),
              EllipticCurve_new.b)}

G1Inputs == CurvePoints \cup {Point_infinity}

G2Inputs ==
    {PointExt_scalar_mul(generator_g2(EllipticCurve_new), EllipticCurve_new, k) :
        k \in 0..MaxExtScalar}

RegInit == <<generator_g1(EllipticCurve_new), generator_g1(EllipticCurve_new)>>

EcAdd ==
    /\ ecall.op = "idle"
    /\ reg = RegInit
    /\ \E p1 \in G1Inputs, p2 \in G1Inputs :
         ecall' = [op |-> "add",
                   args |-> [p1 |-> p1, p2 |-> p2],
                   out |-> Ok(EllipticCurve_add(EllipticCurve_new, p1, p2))]
    /\ UNCHANGED <<kzg, tau, max_degree, call, pcall, reg, fcall>>

EcAddExt ==
    /\ ecall.op = "idle"
    /\ reg = RegInit
    /\ \E p1 \in G2Inputs \cup {PointExt_infinity},
          p2 \in G2Inputs \cup {PointExt_infinity} :
         ecall' = [op |-> "add_ext",
                   args |-> [p1 |-> p1, p2 |-> p2],
                   out |-> Ok(EllipticCurve_add_ext(EllipticCurve_new, p1, p2))]
    /\ UNCHANGED <<kzg, tau, max_degree, call, pcall, reg, fcall>>

EcScalarMul ==
    /\ ecall.op = "idle"
    /\ reg = RegInit
    /\ \E p \in G1Inputs, scalar \in 0..(MODULUS - 1) :
         ecall' = [op |-> "scalar_mul",
                   args |-> [p1 |-> p, p2 |-> FieldElement_new(scalar)],
                   out |-> Ok(Point_scalar_mul(p, EllipticCurve_new,
                                               FieldElement_new(scalar)))]
    /\ UNCHANGED <<kzg, tau, max_degree, call, pcall, reg, fcall>>

EcNew ==
    /\ ecall.op = "idle"
    /\ reg = RegInit
    /\ \E order \in Orders :
         \E a \in 0..(order - 1), b \in 0..(order - 1) :
           ecall' = [op |-> "new",
                     args |-> [p1 |-> math_FieldElement_new(a, order),
                               p2 |-> math_FieldElement_new(b, order)],
                     out |-> math_EllipticCurve_new(
                               math_FieldElement_new(a, order),
                               math_FieldElement_new(b, order))]
    /\ UNCHANGED <<kzg, tau, max_degree, call, pcall, reg, fcall>>

\* PointExt::scalar_mul on generator_g2, the way setup builds [tau]H.
EcScalarMulExt ==
    /\ ecall.op = "idle"
    /\ reg = RegInit
    /\ \E scalar \in 0..(MODULUS - 1) :
         ecall' = [op |-> "scalar_mul_ext",
                   args |-> [p1 |-> generator_g2(EllipticCurve_new),
                             p2 |-> FieldElement_new(scalar)],
                   out |-> Ok(PointExt_scalar_mul(
                                generator_g2(EllipticCurve_new),
                                EllipticCurve_new, FieldElement_new(scalar)))]
    /\ UNCHANGED <<kzg, tau, max_degree, call, pcall, reg, fcall>>

\* P + P for a point P built by curve.point on a curve accepted by
\* math/elliptic_curve.rs new, over a small prime field.
DoubleOrders == {5, 7, 11}

EcDouble ==
    /\ ecall.op = "idle"
    /\ reg = RegInit
    /\ \E order \in DoubleOrders :
         \E a \in 0..(order - 1), b \in 0..(order - 1),
            x \in 0..(order - 1), y \in 0..(order - 1) :
           LET curve == math_EllipticCurve_new(math_FieldElement_new(a, order),
                                               math_FieldElement_new(b, order))
           IN  /\ curve.status = "Ok"
               /\ LET p == math_EllipticCurve_point(
                             curve.value, math_FieldElement_new(x, order),
                             math_FieldElement_new(y, order))
                  IN  /\ p.status = "Ok"
                      /\ ecall' = [op |-> "double",
                                   args |-> [p1 |-> p.value,
                                             p2 |-> curve.value],
                                   out |-> math_Point_add(p.value, p.value)]
    /\ UNCHANGED <<kzg, tau, max_degree, call, pcall, reg, fcall>>

EcReturn ==
    /\ ecall.op /= "idle"
    /\ ecall.out.status = "Ok"
    /\ ecall' = Idle
    /\ UNCHANGED <<kzg, tau, max_degree, call, pcall, reg, fcall>>

\* A caller holding two points derived from generator_g1 replaces one of them
\* by a sum of two of them, by a scalar multiple of one, or by the generator.
RegAdd ==
    /\ ecall.op = "idle"
    /\ \E i \in 1..2, j \in 1..2, d \in 1..2 :
         reg' = [reg EXCEPT ![d] = EllipticCurve_add(EllipticCurve_new,
                                                     reg[i], reg[j])]
    /\ UNCHANGED <<kzg, tau, max_degree, call, pcall, ecall, fcall>>

RegScalarMul ==
    /\ ecall.op = "idle"
    /\ \E i \in 1..2, d \in 1..2, scalar \in 0..(MODULUS - 1) :
         reg' = [reg EXCEPT ![d] = Point_scalar_mul(reg[i], EllipticCurve_new,
                                                    FieldElement_new(scalar))]
    /\ UNCHANGED <<kzg, tau, max_degree, call, pcall, ecall, fcall>>

RegGenerator ==
    /\ ecall.op = "idle"
    /\ \E d \in 1..2 :
         reg' = [reg EXCEPT ![d] = generator_g1(EllipticCurve_new)]
    /\ UNCHANGED <<kzg, tau, max_degree, call, pcall, ecall, fcall>>

CurveNext ==
    \/ EcAdd \/ EcAddExt \/ EcScalarMul \/ EcScalarMulExt \/ EcNew \/ EcDouble
    \/ EcReturn
    \/ RegAdd \/ RegScalarMul \/ RegGenerator

SpecCurve == Init /\ [][CurveNext]_vars

(***************************************************************************)
(* Calls into the field library: the fixed-modulus FieldElement of         *)
(* my_math/field.rs and the per-value-modulus FieldElement of              *)
(* math/field.rs.                                                          *)
(***************************************************************************)
MaxValue == 210     \* FieldElement::new is handed a u64 in 0..MaxValue
MaxExp == 16        \* pow is handed an exponent in 0..MaxExp
MaxOrder == 15      \* the per-value field has an order in 2..MaxOrder

Elements == 0..(MODULUS - 1)

FieldOrders == 2..MaxOrder

FieldNew ==
    /\ fcall.op = "idle"
    /\ \E value \in 0..MaxValue :
         fcall' = [op |-> "new", args |-> [a |-> value],
                   out |-> Ok(FieldElement_new(value))]
    /\ UNCHANGED <<kzg, tau, max_degree, call, pcall, ecall, reg>>

FieldZero ==
    /\ fcall.op = "idle"
    /\ fcall' = [op |-> "zero", args |-> <<>>, out |-> Ok(FieldElement_zero)]
    /\ UNCHANGED <<kzg, tau, max_degree, call, pcall, ecall, reg>>

FieldOne ==
    /\ fcall.op = "idle"
    /\ fcall' = [op |-> "one", args |-> <<>>, out |-> Ok(FieldElement_one)]
    /\ UNCHANGED <<kzg, tau, max_degree, call, pcall, ecall, reg>>

FieldAdd ==
    /\ fcall.op = "idle"
    /\ \E a \in Elements, b \in Elements :
         fcall' = [op |-> "add", args |-> [a |-> a, b |-> b],
                   out |-> Ok(FieldElement_add(a, b))]
    /\ UNCHANGED <<kzg, tau, max_degree, call, pcall, ecall, reg>>

FieldSubstract ==
    /\ fcall.op = "idle"
    /\ \E a \in Elements, b \in Elements :
         fcall' = [op |-> "substract", args |-> [a |-> a, b |-> b],
                   out |-> Ok(FieldElement_substract(a, b))]
    /\ UNCHANGED <<kzg, tau, max_degree, call, pcall, ecall, reg>>

FieldMultiply ==
    /\ fcall.op = "idle"
    /\ \E a \in Elements, b \in Elements :
         fcall' = [op |-> "multiply", args |-> [a |-> a, b |-> b],
                   out |-> Ok(FieldElement_multiply(a, b))]
    /\ UNCHANGED <<kzg, tau, max_degree, call, pcall, ecall, reg>>

FieldDivide ==
    /\ fcall.op = "idle"
    /\ \E a \in Elements, b \in Elements :
         fcall' = [op |-> "divide", args |-> [a |-> a, b |-> b],
                   out |-> Ok(FieldElement_divide(a, b))]
    /\ UNCHANGED <<kzg, tau, max_degree, call, pcall, ecall, reg>>

FieldNegate ==
    /\ fcall.op = "idle"
    /\ \E a \in Elements :
         fcall' = [op |-> "negate", args |-> [a |-> a],
                   out |-> Ok(FieldElement_negate(a))]
    /\ UNCHANGED <<kzg, tau, max_degree, call, pcall, ecall, reg>>

FieldInverse ==
    /\ fcall.op = "idle"
    /\ \E a \in Elements :
         fcall' = [op |-> "inverse", args |-> [a |-> a],
                   out |-> Ok(FieldElement_inverse(a))]
    /\ UNCHANGED <<kzg, tau, max_degree, call, pcall, ecall, reg>>

FieldPow ==
    /\ fcall.op = "idle"
    /\ \E a \in Elements, exp \in 0..MaxExp :
         fcall' = [op |-> "pow", args |-> [a |-> a, exp |-> exp],
                   out |-> Ok(FieldElement_pow(a, exp))]
    /\ UNCHANGED <<kzg, tau, max_degree, call, pcall, ecall, reg>>

\* test_negate for any x: x.negate().add(&x).
FieldTestNegate ==
    /\ fcall.op = "idle"
    /\ \E x \in Elements :
         fcall' = [op |-> "test_negate", args |-> [a |-> x],
                   out |-> Ok(FieldElement_add(FieldElement_negate(x), x))]
    /\ UNCHANGED <<kzg, tau, max_degree, call, pcall, ecall, reg>>

MathInverse ==
    /\ fcall.op = "idle"
    /\ \E order \in FieldOrders :
         \E a \in 0..(order - 1) :
           fcall' = [op |-> "math_inverse",
                     args |-> [a |-> math_FieldElement_new(a, order)],
                     out |-> Ok(math_FieldElement_inverse(
                                  math_FieldElement_new(a, order)))]
    /\ UNCHANGED <<kzg, tau, max_degree, call, pcall, ecall, reg>>

MathDivide ==
    /\ fcall.op = "idle"
    /\ \E order \in FieldOrders :
         \E a \in 0..(order - 1), b \in 0..(order - 1) :
           fcall' = [op |-> "math_divide",
                     args |-> [a |-> math_FieldElement_new(a, order), b |-> b],
                     out |-> Ok(math_FieldElement_divide(
                                  math_FieldElement_new(a, order), b))]
    /\ UNCHANGED <<kzg, tau, max_degree, call, pcall, ecall, reg>>

\* math/field.rs test_negate for any x and order: x.negate().add(&x).
MathTestNegate ==
    /\ fcall.op = "idle"
    /\ \E order \in FieldOrders :
         \E x \in 0..(order - 1) :
           fcall' = [op |-> "math_test_negate",
                     args |-> [a |-> math_FieldElement_new(x, order)],
                     out |-> Ok(math_FieldElement_add(
                                  math_FieldElement_negate(
                                    math_FieldElement_new(x, order)),
                                  math_FieldElement_new(x, order)))]
    /\ UNCHANGED <<kzg, tau, max_degree, call, pcall, ecall, reg>>

\* The four binary operations of math/field.rs on two elements whose orders
\* are chosen independently.
MathElements ==
    UNION {{math_FieldElement_new(v, order) : v \in 0..(order - 1)} :
             order \in FieldOrders}

MathAdd ==
    /\ fcall.op = "idle"
    /\ \E a \in MathElements, b \in MathElements :
         fcall' = [op |-> "math_add", args |-> [a |-> a, b |-> b],
                   out |-> math_FieldElement_add_call(a, b)]
    /\ UNCHANGED <<kzg, tau, max_degree, call, pcall, ecall, reg>>

MathSubstract ==
    /\ fcall.op = "idle"
    /\ \E a \in MathElements, b \in MathElements :
         fcall' = [op |-> "math_substract", args |-> [a |-> a, b |-> b],
                   out |-> math_FieldElement_substract_call(a, b)]
    /\ UNCHANGED <<kzg, tau, max_degree, call, pcall, ecall, reg>>

MathMultiply ==
    /\ fcall.op = "idle"
    /\ \E a \in MathElements, b \in MathElements :
         fcall' = [op |-> "math_multiply", args |-> [a |-> a, b |-> b],
                   out |-> math_FieldElement_multiply_call(a, b)]
    /\ UNCHANGED <<kzg, tau, max_degree, call, pcall, ecall, reg>>

\* a.divide(b.value), the way elliptic_curve.rs divides one element by another.
MathDivideElements ==
    /\ fcall.op = "idle"
    /\ \E a \in MathElements, b \in MathElements :
         fcall' = [op |-> "math_divide_elements", args |-> [a |-> a, b |-> b],
                   out |-> math_FieldElement_divide_call(a, b)]
    /\ UNCHANGED <<kzg, tau, max_degree, call, pcall, ecall, reg>>

FieldReturn ==
    /\ fcall.op /= "idle"
    /\ fcall.out.status = "Ok"
    /\ fcall' = Idle
    /\ UNCHANGED <<kzg, tau, max_degree, call, pcall, ecall, reg>>

FieldNext ==
    \/ FieldNew \/ FieldZero \/ FieldOne \/ FieldAdd \/ FieldSubstract
    \/ FieldMultiply \/ FieldDivide \/ FieldNegate \/ FieldInverse \/ FieldPow
    \/ FieldTestNegate \/ MathInverse \/ MathDivide \/ MathTestNegate
    \/ MathAdd \/ MathSubstract \/ MathMultiply \/ MathDivideElements
    \/ FieldReturn

SpecField == Init /\ [][FieldNext]_vars

(***************************************************************************)
(* Properties of the Polynomial library (checked under SpecPoly).          *)
(***************************************************************************)
\* The coefficient of x^k, zero past the end of the vector.
Coef(poly, k) == IF k < Len(poly.coeffs) THEN At(poly.coeffs, k).value ELSE 0

\* Coefficient k of the product a * b: the sum of a_i * b_(k-i), i in 0..k.
RECURSIVE ConvSum(_, _, _, _)
ConvSum(a, b, k, i) ==
    IF i > k THEN 0
    ELSE Coef(a, i) * Coef(b, k - i) + ConvSum(a, b, k, i + 1)

\* p = q * d + r, coefficient by coefficient, modulo the order.
DivisionIdentity(p, q, d, r) ==
    \A k \in 0..(Len(p.coeffs) + Len(q.coeffs) + Len(d.coeffs)) :
        Coef(p, k) = (ConvSum(q, d, k, 0) + Coef(r, k)) % p.order

IsZeroPoly(poly) == \A k \in 1..Len(poly.coeffs) : poly.coeffs[k].value = 0

Values(v) == [k \in 1..Len(v) |-> v[k].value]

DivideCalled == pcall.op = "divide"

\* C1 as stated: for every p and every nonzero d, divide(p, d) returns (q, r)
\* with p = q * d + r and degree(r) < degree(d), constant divisors included.
C1_DivideRemainderDegreeBelowDivisor ==
    (DivideCalled /\ ~IsZeroPoly(pcall.args.divisor)) =>
        /\ pcall.out.status = "Ok"
        /\ DivisionIdentity(pcall.args.self, pcall.out.value.quotient,
                            pcall.args.divisor, pcall.out.value.remainder)
        /\ Polynomial_degree(pcall.out.value.remainder)
             < Polynomial_degree(pcall.args.divisor)

\* C1 amended: for every p and every nonzero d, divide(p, d) returns (q, r)
\* with p = q * d + r; degree(r) < degree(d) when degree(d) >= 1, and for a
\* nonzero constant d the remainder is the empty (zero) polynomial, whose
\* degree() is 0 = degree(d).
C1_DivideIdentityAndRemainder ==
    (DivideCalled /\ ~IsZeroPoly(pcall.args.divisor)) =>
        /\ pcall.out.status = "Ok"
        /\ DivisionIdentity(pcall.args.self, pcall.out.value.quotient,
                            pcall.args.divisor, pcall.out.value.remainder)
        /\ Polynomial_degree(pcall.args.divisor) >= 1 =>
             Polynomial_degree(pcall.out.value.remainder)
               < Polynomial_degree(pcall.args.divisor)
        /\ Polynomial_degree(pcall.args.divisor) = 0 =>
             /\ pcall.out.value.remainder.coeffs = <<>>
             /\ Polynomial_degree(pcall.out.value.remainder) = 0

\* (1 + 2x + 2x^2) / (2 + x) over order 7 gives the quotient 5 + 2x and the
\* remainder 5.
C1_Witness ==
    /\ DivideCalled
    /\ pcall.args.self.order = 7
    /\ Values(pcall.args.self.coeffs) = <<1, 2, 2>>
    /\ Values(pcall.args.divisor.coeffs) = <<2, 1>>
    /\ pcall.out.status = "Ok"
    /\ Values(pcall.out.value.quotient.coeffs) = <<5, 2>>
    /\ Values(pcall.out.value.remainder.coeffs) = <<5>>

\* C8: divide fails whenever the divisor is the zero polynomial, be it <<0>>
\* or the empty vector.
C8_DivideByZeroPolynomialFails ==
    (DivideCalled /\ IsZeroPoly(pcall.args.divisor)) =>
        pcall.out.status = "Panic"

InterpolateCalled == pcall.op = "lagrange_interpolate"

SharesX(points) ==
    \E i, j \in 1..Len(points) : i /= j /\ points[i][1] = points[j][1]

\* C9: lagrange_interpolate fails on a point list in which two points share an
\* x-coordinate; it returns no polynomial for it.
C9_InterpolateDuplicateXFails ==
    (InterpolateCalled /\ SharesX(pcall.args.points)) =>
        pcall.out.status = "Panic"

\* C10: for k >= 1 points with pairwise distinct x over a prime order,
\* lagrange_interpolate returns P of degree at most k - 1 with
\* evaluate(P, x_i) = y_i for every i.
C10_InterpolateEvaluatesBack ==
    (InterpolateCalled /\ Len(pcall.args.points) >= 1
       /\ ~SharesX(pcall.args.points)) =>
        /\ pcall.out.status = "Ok"
        /\ Polynomial_degree(pcall.out.value) <= Len(pcall.args.points) - 1
        /\ Len(pcall.out.value.coeffs) <= Len(pcall.args.points)
        /\ \A i \in 1..Len(pcall.args.points) :
             Polynomial_evaluate(pcall.out.value, pcall.args.points[i][1])
               = pcall.args.points[i][2]

\* test_lagrange_interpolate: (0,1), (1,2), (2,4) over order 7 interpolate to
\* 1 + 4x + 4x^2.
C10_Witness ==
    /\ InterpolateCalled
    /\ pcall.args.points = test_lagrange_points
    /\ pcall.out.status = "Ok"
    /\ Values(pcall.out.value.coeffs) = <<1, 4, 4>>

(***************************************************************************)
(* Properties of the KZG protocol (checked under Spec).                    *)
(***************************************************************************)
G1 == generator_g1(EllipticCurve_new)

H == generator_g2(EllipticCurve_new)

\* [k]P as the k-fold sum P + ... + P.
RECURSIVE GroupMul(_, _)
GroupMul(P, k) ==
    IF k = 0 THEN Point_infinity
    ELSE EllipticCurve_add(EllipticCurve_new, GroupMul(P, k - 1), P)

\* The sum of the terms [c_i] srs[i] taken in the order perm[1], perm[2], ...
RECURSIVE SumInOrder(_, _, _, _)
SumInOrder(coeffs, srs, perm, k) ==
    IF k = 0 THEN Point_infinity
    ELSE EllipticCurve_add(EllipticCurve_new,
                           SumInOrder(coeffs, srs, perm, k - 1),
                           GroupMul(srs[perm[k]], coeffs[perm[k]]))

Perms(n) == {f \in [1..n -> 1..n] : \A i, j \in 1..n : f[i] = f[j] => i = j}

Identity(n) == [k \in 1..n |-> k]

\* z^n modulo 101, with z^0 = 1.
RECURSIVE PowMod(_, _)
PowMod(z, n) == IF n = 0 THEN 1 ELSE (z * PowMod(z, n - 1)) % MODULUS

\* poly(z) as the sum of c_i z^i modulo 101.
RECURSIVE PowerSum(_, _, _)
PowerSum(coeffs, z, k) ==
    IF k > Len(coeffs) THEN 0
    ELSE (coeffs[k] * PowMod(z, k - 1) + PowerSum(coeffs, z, k + 1)) % MODULUS

\* The quotient q of (poly - poly(z)) by (x - z): q_(n-2) = c_(n-1) and
\* q_(i-1) = c_i + z q_i, as a vector of n - 1 coefficients.
RECURSIVE ExactQuotientAt(_, _, _)
ExactQuotientAt(coeffs, z, k) ==
    IF k >= Len(coeffs) THEN 0
    ELSE (coeffs[k + 1] + z * ExactQuotientAt(coeffs, z, k + 1)) % MODULUS

ExactQuotient(coeffs, z) ==
    [k \in 1..(Len(coeffs) - 1) |-> ExactQuotientAt(coeffs, z, k)]

VCoef(v, k) == IF k < Len(v) THEN At(v, k) ELSE 0

\* q(x) (x - z) = poly(x) - y, coefficient by coefficient modulo 101.
IsQuotient(q, coeffs, z, y) ==
    \A k \in 0..Len(coeffs) :
        ((IF k >= 1 THEN VCoef(q, k - 1) ELSE 0) + (MODULUS - z) * VCoef(q, k))
            % MODULUS
          = (VCoef(coeffs, k) + (IF k = 0 THEN MODULUS - y ELSE 0)) % MODULUS

Ready == kzg.state = "Ready"

\* C2: for every polynomial with 1 <= degree <= max_degree and every z, prove
\* returns y = poly(z) and proof = sum of q_i setup_g1[i] for the exact
\* quotient q of poly(x) - y by (x - z).
C2_ProveCommitsToExactQuotient ==
    (call.op = "prove"
       /\ Len(call.args.poly.coeffs) - 1 >= 1
       /\ Len(call.args.poly.coeffs) - 1 <= max_degree) =>
        /\ call.out.status = "Ok"
        /\ call.out.value.y = PowerSum(call.args.poly.coeffs, call.args.z, 1)
        /\ LET q == ExactQuotient(call.args.poly.coeffs, call.args.z)
           IN  /\ IsQuotient(q, call.args.poly.coeffs, call.args.z,
                             call.out.value.y)
               /\ call.out.value.proof
                    = SumInOrder(q, kzg.setup_g1, Identity(Len(q)), Len(q))

\* C3: verify returns true if and only if the two pairing values it
\* computes are equal.
C3_VerifyTrueIffPairingsEqual ==
    call.op = "verify" =>
        (call.out.value.result = (call.out.value.left = call.out.value.right))

\* C4: with max_degree = 2, for every tau, every linear polynomial a + b x and
\* every z, prove returns y = a + b z and proof = [b] G1, and verify of the
\* commitment, z, y and the proof returns true.
C4_RoundTrip ==
    (call.op = "test_kzg" /\ max_degree = 2) =>
        /\ call.out.status = "Ok"
        /\ call.out.value.y
             = (call.args.poly.coeffs[1]
                  + call.args.poly.coeffs[2] * call.args.z) % MODULUS
        /\ call.out.value.proof = GroupMul(G1, call.args.poly.coeffs[2])
        /\ call.out.value.commitment
             = SumInOrder(call.args.poly.coeffs, kzg.setup_g1, Identity(2), 2)
        /\ call.out.value.verified = TRUE

\* test_kzg: 1 + 2x at z = 3 opens to y = 7 with proof [2] G1 = (68, 74).
C4_Witness ==
    /\ call.op = "test_kzg"
    /\ max_degree = 2
    /\ call.args.poly.coeffs = <<1, 2>>
    /\ call.args.z = 3
    /\ call.out.value.y = 7
    /\ call.out.value.proof = [x |-> 68, y |-> 74, is_infinity |-> FALSE]
    /\ call.out.value.verified = TRUE

C6_SrsIsPowersOfTau ==
    Ready =>
        /\ Len(kzg.setup_g1) = max_degree + 1
        /\ At(kzg.setup_g1, 0) = G1
        /\ \A i \in 0..(max_degree - 1) :
             At(kzg.setup_g1, i + 1) = GroupMul(At(kzg.setup_g1, i), tau)
        /\ kzg.setup_g2 = <<H, PointExt_scalar_mul(H, EllipticCurve_new, tau)>>

\* C7: commit on a polynomial with more coefficients than SRS entries fails
\* with a checked DegreeExceeded failure, never with a panic.
C7_CommitDegreeExceededIsChecked ==
    (call.op = "commit" /\ Len(call.args.poly.coeffs) - 1 > max_degree) =>
        /\ call.out.status = "DegreeExceeded"
        /\ call.out.status /= "Panic"

(***************************************************************************)
(* Properties of the curve library (checked under SpecCurve).              *)
(***************************************************************************)
\* y^2 = x^3 + a x + b over F_101 for the a and b of EllipticCurve::new.
OnCurve(pt) ==
    (pt.y * pt.y) % MODULUS
      = (pt.x * pt.x * pt.x + EllipticCurve_new.a * pt.x + EllipticCurve_new.b)
          % MODULUS

\* -P: the same x and the negated y.
Negated(pt) == [pt EXCEPT !.y = (MODULUS - pt.y) % MODULUS]

\* C11: for every affine point P of the curve, also one with y = 0,
\* add(P, -P) returns the point at infinity.
C11_AddNegationIsInfinity ==
    (ecall.op = "add"
       /\ ~ecall.args.p1.is_infinity
       /\ ecall.args.p2 = Negated(ecall.args.p1)) =>
        ecall.out.value = Point_infinity

\* C12: the point at infinity is a two-sided identity of add and of add_ext:
\* add(P, infinity) = P and add(infinity, P) = P for every P.
C12_InfinityIsIdentity ==
    (ecall.op = "add" \/ ecall.op = "add_ext") =>
        /\ ecall.args.p2.is_infinity => ecall.out.value = ecall.args.p1
        /\ ecall.args.p1.is_infinity => ecall.out.value = ecall.args.p2

\* G + infinity = G.
C12_Witness ==
    /\ ecall.op = "add"
    /\ ecall.args.p1 = G1
    /\ ecall.args.p2 = Point_infinity
    /\ ecall.out.value = G1

\* C13: for every scalar k in 0..100, scalar_mul(G, k) is the k-fold sum of G
\* and is the point at infinity exactly when 17 divides k; G + G = (68, 74).
C13_ScalarMulIsRepeatedSum ==
    /\ (ecall.op = "scalar_mul" /\ ecall.args.p1 = G1) =>
         /\ ecall.out.value = GroupMul(G1, ecall.args.p2)
         /\ ecall.out.value.is_infinity
              <=> (ecall.args.p2 % EllipticCurve_new.order = 0)
    /\ (ecall.op = "add" /\ ecall.args.p1 = G1 /\ ecall.args.p2 = G1) =>
         ecall.out.value = [x |-> 68, y |-> 74, is_infinity |-> FALSE]

\* test_curve_order: scalar_mul(G, 17) is the point at infinity.
C13_Witness ==
    /\ ecall.op = "scalar_mul"
    /\ ecall.args.p1 = G1
    /\ ecall.args.p2 = 17
    /\ ecall.out.value = Point_infinity

\* C14: every point computed from generator_g1 by add and scalar_mul is the
\* point at infinity or satisfies y^2 = x^3 + a x + b.
C14_ReachablePointsOnCurve ==
    \A i \in 1..2 : reg[i].is_infinity \/ OnCurve(reg[i])

\* Two different affine points, neither the generator, are held.
C14_Witness ==
    /\ ~reg[1].is_infinity
    /\ ~reg[2].is_infinity
    /\ reg[1] /= G1
    /\ reg[2] /= G1
    /\ reg[1] /= reg[2]
    /\ OnCurve(reg[1])

\* C15: EllipticCurve::new(a, b) over a prime field with p > 3 fails exactly
\* when 4 a^3 + 27 b^2 = 0 modulo p.
C15_NewRejectsExactlySingular ==
    ecall.op = "new" =>
        (ecall.out.status = "Panic"
           <=> (4 * ecall.args.p1.value * ecall.args.p1.value
                  * ecall.args.p1.value
                + 27 * ecall.args.p2.value * ecall.args.p2.value)
                 % ecall.args.p1.order = 0)

(***************************************************************************)
(* Properties of the field library (checked under SpecField).              *)
(***************************************************************************)
\* The greatest common divisor, with GCD(0, m) = m.
RECURSIVE GCD(_, _)
GCD(a, b) == IF b = 0 THEN a ELSE GCD(b, a % b)

\* a^n modulo m as n multiplications by a, with a^0 = 1.
RECURSIVE RepeatedProduct(_, _, _)
RepeatedProduct(a, n, m) ==
    IF n = 0 THEN 1 % m ELSE (a * RepeatedProduct(a, n - 1, m)) % m

\* C16: for every a with gcd(a, modulus) = 1, a * inverse(a) = 1 and
\* inverse(a) is in [0, modulus), in the fixed-modulus field and in the
\* per-value-modulus field.
C16_InverseIsInverse ==
    /\ (fcall.op = "inverse" /\ GCD(fcall.args.a, MODULUS) = 1) =>
         /\ fcall.out.value \in 0..(MODULUS - 1)
         /\ (fcall.args.a * fcall.out.value) % MODULUS = 1
    /\ (fcall.op = "math_inverse"
          /\ GCD(fcall.args.a.value, fcall.args.a.order) = 1) =>
         /\ fcall.out.value.value \in 0..(fcall.args.a.order - 1)
         /\ fcall.out.value.order = fcall.args.a.order
         /\ (fcall.args.a.value * fcall.out.value.value) % fcall.args.a.order
              = 1

\* test_inverse_basic: the inverse of 2 is 51.
C16_Witness ==
    /\ fcall.op = "inverse"
    /\ fcall.args.a = 2
    /\ fcall.out.value = 51

\* C17: for every a with gcd(a, modulus) /= 1, a = 0 included, inverse(a)
\* returns the zero element and divide(x, a) returns 0 for every x.
C17_NonInvertibleGivesZero ==
    /\ (fcall.op = "inverse" /\ GCD(fcall.args.a, MODULUS) /= 1) =>
         (fcall.out.status = "Ok" /\ fcall.out.value = 0)
    /\ (fcall.op = "divide" /\ GCD(fcall.args.b, MODULUS) /= 1) =>
         (fcall.out.status = "Ok" /\ fcall.out.value = 0)
    /\ (fcall.op = "math_inverse"
          /\ GCD(fcall.args.a.value, fcall.args.a.order) /= 1) =>
         (fcall.out.status = "Ok" /\ fcall.out.value.value = 0)
    /\ (fcall.op = "math_divide"
          /\ GCD(fcall.args.b, fcall.args.a.order) /= 1) =>
         (fcall.out.status = "Ok" /\ fcall.out.value.value = 0)

\* Over the composite order 15 a division by 5 (gcd 5) returns 0.
C17_Witness ==
    /\ fcall.op = "math_divide"
    /\ fcall.args.a = [value |-> 7, order |-> 15]
    /\ fcall.args.b = 5
    /\ fcall.out.value.value = 0

\* C18: for every a and every exponent, pow(a, exp) is a multiplied by itself
\* exp times modulo the modulus; pow(a, 0) = 1 also for a = 0, pow(a, 1) = a.
C18_PowIsRepeatedProduct ==
    fcall.op = "pow" =>
        /\ fcall.out.value
             = RepeatedProduct(fcall.args.a, fcall.args.exp, MODULUS)
        /\ fcall.args.exp = 0 => fcall.out.value = 1
        /\ fcall.args.exp = 1 => fcall.out.value = fcall.args.a

\* test_pow_larger_exponent: 2^8 = 54 modulo 101.
C18_Witness ==
    /\ fcall.op = "pow"
    /\ fcall.args.a = 2
    /\ fcall.args.exp = 8
    /\ fcall.out.value = 54

FixedFieldOps ==
    {"new", "add", "substract", "multiply", "negate", "inverse", "divide",
     "pow", "zero", "one"}

C20_NegateIsAdditiveInverse ==
    /\ fcall.op = "test_negate" => fcall.out.value = 0
    /\ fcall.op = "math_test_negate" => fcall.out.value.value = 0

\* math/field.rs test_negate: x = 3 over the composite order 14.
C20_Witness ==
    /\ fcall.op = "math_test_negate"
    /\ fcall.args.a = [value |-> 3, order |-> 14]
    /\ fcall.out.value = [value |-> 0, order |-> 14]

(***************************************************************************)
(* Properties of the per-value-modulus field on mixed moduli.              *)
(***************************************************************************)

MixedBinaryOps ==
    {"math_add", "math_substract", "math_multiply", "math_divide_elements"}

\* C21: add, substract, multiply and divide applied to two elements whose
\* moduli differ fail and return no value.
C21_MixedModuliFail ==
    (fcall.op \in MixedBinaryOps /\ fcall.args.a.order /= fcall.args.b.order)
        => fcall.out.status = "Panic"

(***************************************************************************)
(* Properties of the polynomial algebra.                                   *)
(***************************************************************************)

\* No trailing zero coefficient: the vector is empty, has one coefficient, or
\* ends in a nonzero one.
Canonical(p) ==
    Len(p.coeffs) <= 1 \/ Last(p.coeffs) /= math_FieldElement_zero(p.order)

PlonkCanonical(p) ==
    Len(p.coeffs) <= 1 \/ Last(p.coeffs) /= FieldElement_zero

CanonicalOps ==
    {"new", "add", "sub", "mul", "scalar_mul", "vanishing_polynomial",
     "alg_lagrange_interpolate"}

\* C22: every polynomial returned by new, +, -, *, scalar_mul, divide,
\* vanishing_polynomial and lagrange_interpolate has no trailing zero
\* coefficient, unless it is [0] or empty; scalar_mul by the zero scalar
\* included.
C22_ResultsHaveNoTrailingZero ==
    /\ (pcall.op \in CanonicalOps /\ pcall.out.status = "Ok")
          => Canonical(pcall.out.value)
    /\ (pcall.op = "alg_divide" /\ pcall.out.status = "Ok")
          => /\ Canonical(pcall.out.value.quotient)
             /\ Canonical(pcall.out.value.remainder)
    /\ pcall.op = "plonk_new" => PlonkCanonical(pcall.out.value)

MulCalled == pcall.op = "mul"

\* The coefficients of out are the convolution of those of a and b.
IsConvolution(a, b, out) ==
    \A k \in 0..(Len(a.coeffs) + Len(b.coeffs) + Len(out.coeffs)) :
        Coef(out, k) = ConvSum(a, b, k, 0) % a.order

\* C23: a * b is the convolution of the coefficients and its coefficient
\* vector has exactly len(a) + len(b) - 1 entries, a zero operand ([0] or
\* empty) included.
C23_ProductIsConvolutionOfFullLength ==
    MulCalled =>
        /\ pcall.out.status = "Ok"
        /\ IsConvolution(pcall.args.self, pcall.args.other, pcall.out.value)
        /\ Len(pcall.out.value.coeffs) =
              Len(pcall.args.self.coeffs) + Len(pcall.args.other.coeffs) - 1

VanishingCalled == pcall.op = "vanishing_polynomial"

\* x^n - 1 as a coefficient function: -1 at 0, 1 at n, both at once for n = 0.
XnMinusOne(n, order, k) ==
    ((IF k = n THEN 1 ELSE 0) + (IF k = 0 THEN order - 1 ELSE 0)) % order

\* C24: for every n, 0 included, vanishing_polynomial(n) returns x^n - 1 and
\* evaluates to 0 at every x with x^n = 1.
C24_VanishingIsXnMinusOne ==
    VanishingCalled =>
        /\ \A k \in 0..(pcall.args.n + 1) :
              Coef(pcall.out.value, k) =
                 XnMinusOne(pcall.args.n, pcall.args.order, k)
        /\ \A x \in 0..(pcall.args.order - 1) :
              RepeatedProduct(x, pcall.args.n, pcall.args.order) =
                 1 % pcall.args.order
              => Polynomial_evaluate(
                    pcall.out.value,
                    math_FieldElement_new(x, pcall.args.order)).value = 0

(***************************************************************************)
(* Properties of the G2 points.                                            *)
(***************************************************************************)

\* The product of a + b u and c + d u in F_101[u] / (u^2 = -2).
ExtProduct(p, q) ==
    [a |-> (p.a * q.a + (MODULUS - 2) * p.b * q.b) % MODULUS,
     b |-> (p.a * q.b + p.b * q.a) % MODULUS]

\* y^2 = x^3 + 3 in F_101[u] / (u^2 = -2).
OnCurveExt(pt) ==
    ExtProduct(pt.y, pt.y) =
        [a |-> (ExtProduct(ExtProduct(pt.x, pt.x), pt.x).a
                  + EllipticCurve_new.b) % MODULUS,
         b |-> ExtProduct(ExtProduct(pt.x, pt.x), pt.x).b]

\* C25: every PointExt computed from generator_g2 by add_ext and
\* PointExt::scalar_mul, [2]H and [tau]H for tau in 1..100 among them, is the
\* point at infinity or satisfies y^2 = x^3 + 3.
C25_G2PointsOnCurve ==
    (ecall.op = "scalar_mul_ext" \/ ecall.op = "add_ext") =>
        (ecall.out.value.is_infinity \/ OnCurveExt(ecall.out.value))

(***************************************************************************)
(* Properties of the points verify feeds to the pairings.                  *)
(***************************************************************************)

\* C26: in verify the G1 point of the left pairing is C - [y]G1, so adding
\* [y]G1 back yields C, and the G2 point of the right pairing is
\* [tau]H - [z]H, so adding [z]H back yields [tau]H.
C26_VerifyOperandsAreDifferences ==
    call.op = "verify" =>
        /\ EllipticCurve_add(kzg.curve, call.out.value.lhs_g1,
                             GroupMul(G1, call.args.y))
             = call.args.commitment
        /\ EllipticCurve_add_ext(
              kzg.curve, call.out.value.rhs_g2,
              PointExt_scalar_mul(H, kzg.curve, call.args.z))
             = At(kzg.setup_g2, 1)

(***************************************************************************)
(* Frame of the calls on a Ready instance.                                 *)
(***************************************************************************)

\* The result a call has recorded is the function of its arguments and of the
\* instance alone.
ResultIsFunctionOfArguments ==
    /\ call.op = "commit" =>
          (\/ call.out = KZG_commit(kzg, call.args.poly, TRUE)
           \/ call.out = KZG_commit(kzg, call.args.poly, FALSE))
    /\ call.op = "prove" =>
          (\/ call.out = KZG_prove(kzg, call.args.poly, call.args.z, TRUE)
           \/ call.out = KZG_prove(kzg, call.args.poly, call.args.z, FALSE))
    /\ call.op = "verify" =>
          call.out = Ok(KZG_verify(kzg, call.args.commitment, call.args.z,
                                   call.args.y, call.args.proof))

OnMathCurve(curve, pt) ==
    (pt.y.value * pt.y.value) % curve.order
      = (pt.x.value * pt.x.value * pt.x.value + curve.a.value * pt.x.value
           + curve.b.value) % curve.order

\* out is the tangent-line double of p with slope l = (3 x^2 + a) / (2 y).
IsTangentDouble(curve, p, out) ==
    \E l \in 0..(curve.order - 1) :
        /\ (l * 2 * p.y.value) % curve.order
             = (3 * p.x.value * p.x.value + curve.a.value) % curve.order
        /\ out.x.value
             = (l * l + 2 * (curve.order - p.x.value)) % curve.order
        /\ out.y.value
             = (l * (p.x.value + curve.order - out.x.value)
                  + curve.order - p.y.value) % curve.order

\* C28: on every curve accepted by new, a /= 0 included, and for every point P
\* of it with y /= 0, P + P is computed with the slope (3 x^2 + a) / (2 y) and
\* is a point of the same curve.
C28_DoublingStaysOnCurve ==
    (ecall.op = "double" /\ ecall.args.p1.y.value /= 0) =>
        /\ ecall.out.status = "Ok"
        /\ ~ecall.out.value.is_infinity
        /\ IsTangentDouble(ecall.args.p2, ecall.args.p1, ecall.out.value)
        /\ OnMathCurve(ecall.args.p2, ecall.out.value)

(***************************************************************************)
(* Totality of commit and open.                                            *)
(***************************************************************************)

\* C29: commit and open return on every polynomial of degree <= max_degree;
\* for a constant [c] open returns y = c with the identity as proof, and for
\* the empty coefficient vector commit returns the identity.
C29_CommitAndOpenAreTotal ==
    /\ (call.op = "commit"
          /\ Len(call.args.poly.coeffs) <= max_degree + 1) =>
         /\ call.out.status = "Ok"
         /\ Len(call.args.poly.coeffs) = 0 => call.out.value = Point_infinity
    /\ (call.op = "prove"
          /\ Len(call.args.poly.coeffs) <= max_degree + 1) =>
         /\ call.out.status = "Ok"
         /\ Len(call.args.poly.coeffs) = 1 =>
              /\ call.out.value.y = call.args.poly.coeffs[1]
              /\ call.out.value.proof = Point_infinity

(***************************************************************************)
(* Additivity of commit.                                                   *)
(***************************************************************************)

\* C30: commit(p + q) = commit(p) + commit(q) for all p and q of degree
\* <= max_degree, p + q being the coefficient-wise sum in F_101, coefficient
\* pairs whose integer sum reaches 101 included.
C30_CommitIsAdditive ==
    call.op = "commit_sum" =>
        call.out.value.of_sum = call.out.value.sum_of

====
